---- MODULE Spec2Model ----
(***************************************************************************)
(* The personal word-pair dictionary of wordpan: the useWordPairs hook     *)
(* (web/src/hooks/use-word-pairs.ts), the useTranslationSuggestions hook   *)
(* (web/src/hooks/use-translation-suggestions.ts), the add form and the    *)
(* table of the page that uses both (web/src/pages/word-pairs.tsx), the    *)
(* ai-service request functions they await (web/src/lib/ai-service.ts) and *)
(* the user_word_pairs table behind the REST endpoints; also the paginated *)
(* useWords hook (web/src/hooks/use-words.ts) and the UserProvider context *)
(* that holds the signed-in user and the profile.                          *)
(*                                                                         *)
(* Every hook operation is an async function: the part before the await    *)
(* runs when the operation is called, the request function then runs to    *)
(* its result, and the part after the await (try / catch / finally) runs   *)
(* when the promise resolves.  Any number of operations may be suspended   *)
(* at their await at once.  What the page derives from the collection on   *)
(* each render (statistics, filter, sort, accuracy) is a function of the   *)
(* state, with the arithmetic of JavaScript Numbers.                       *)
(***************************************************************************)
EXTENDS Integers, Sequences, FiniteSets, TLC

\* ---------------------------------------------------------------- bounds
MaxCalls == 2       \* operations started in one behaviour of Spec and SvcSpec
DeepCalls == 3      \* operations started in one behaviour of DeepSpec
MaxInFlight == 2    \* operations suspended at their await at once
MaxId == 3          \* ids the table can hand out
InitRows == 2       \* rows the table may hold before the page is opened

VARIABLES
    wordPairs,   \* useState<WordPair[]>([])
    loading,     \* useState(false)
    error,       \* useState<Error | null>(null)
    reqs,        \* the async calls that have started and not yet returned
    left,        \* number of calls still to be started
    db,          \* rows of public.user_word_pairs owned by the user
    nextId,      \* next id the table hands out
    clock,       \* the table's now()
    last,        \* the step taken last: the call, its request, its promise
    suggestions,         \* useState<TranslationSuggestion[]>([])
    suggestionsLoading,  \* useState(false) of useTranslationSuggestions
    suggestionsError,    \* useState<Error | null>(null) of the same hook
    sourceWord,          \* useState('') of the page
    selectedTranslation, \* useState<string | null>(null), "null" for null
    adding,              \* useState(false) of the page
    hasLanguages,        \* the profile names a native and a target language
    filter,              \* useState<'all' | 'mastered' | 'learning'>('all')
    sortBy,              \* useState<'date' | 'accuracy' | 'practiced'>('date')
    words,               \* useState<Word[]>([]) of useWords
    wordsLoading,        \* useState(true) of useWords
    currentPage,         \* useState(1)
    totalCount,          \* useState(0)
    fetches,             \* the fetchWords calls suspended at one of their awaits
    wordRows,            \* number of rows of public.words
    user,                \* useState<User | null>(null) of UserProvider
    profile,             \* useState<Profile | null>(null)
    userLoading,         \* useState(true) of UserProvider
    userError,           \* useState<Error | null>(null) of UserProvider
    sessionLookup,       \* the getSession() promise of the mount effect
    lookups              \* the fetchProfile calls suspended at their await

vars == <<wordPairs, loading, error, reqs, left, db, nextId, clock, last,
          suggestions, suggestionsLoading, suggestionsError,
          sourceWord, selectedTranslation, adding, hasLanguages,
          filter, sortBy,
          words, wordsLoading, currentPage, totalCount, fetches, wordRows,
          user, profile, userLoading, userError, sessionLookup, lookups>>

\* the state of useWordPairs, of useTranslationSuggestions, of the form of the
\* page and of its table controls
storeVars == <<wordPairs, loading, error>>
suggestionVars == <<suggestions, suggestionsLoading, suggestionsError>>
formVars == <<sourceWord, selectedTranslation, adding, hasLanguages>>
tableVars == <<filter, sortBy>>

\* the state of useWords with the words table, and of UserProvider
wordsVars == <<words, wordsLoading, currentPage, totalCount, fetches, wordRows>>
userVars == <<user, profile, userLoading, userError, sessionLookup, lookups>>

\* ------------------------------------------------------------ inputs
Ids == 1..MaxId
SourceWords == {"casa"}
TargetWords == {"house", "home"}
StatusTexts == {"Not Found", "Internal Server Error"}
ServerErrorTexts == {"Word pair not found"}

StoreOps == {"getWordPairs", "addWordPair", "removeWordPair",
             "markWordPairMastered", "updateWordPairStats"}
Ops == StoreOps \cup {"getTranslationSuggestions", "generateRandomPhrase"}

\* ------------------------------------------------------------ errors
NullError == [name |-> "null", message |-> <<>>]
Err(name, message) == [name |-> name, message |-> message]

\* err instanceof Error
IsError(e) == e.name \in {"Error", "TypeError", "SyntaxError"}

\* mutant: the catch block always makes a new error
ToError_AlwaysNew(e) == Err("Error", <<"An unknown error occurred">>)

\* err instanceof Error ? err : new Error('An unknown error occurred')
ToError(e) == IF IsError(e) THEN e ELSE Err("Error", <<"An unknown error occurred">>)

\* ------------------------------------------------- the table (migration)
NewRow(id, source, target, now) ==
    [id |-> id, source_word |-> source, target_word |-> target,
     mastered |-> FALSE,
     times_practiced |-> 0, times_correct |-> 0, times_wrong |-> 0,
     created_at |-> now, updated_at |-> now]

\* trigger update_user_word_pairs_updated_at
Touch(row, now) == [row EXCEPT !.updated_at = now]

HasRow(d, id) == \E r \in d : r.id = id
RowOf(d, id) == CHOOSE r \in d : r.id = id

\* ------------------------------------------- the REST endpoints (server)
\* A successful endpoint call: the table after it and the JSON it returns.
\* items is the record, or the list, that the body carries.
Served(d, nid, now, items) == [db |-> d, nextId |-> nid, clock |-> now, items |-> items]

\* all orders in which the rows of d can be listed, each row once
Listings(d) ==
    {s \in [1..Cardinality(d) -> d] : \A i, j \in 1..Cardinality(d) : s[i] = s[j] => i = j}

\* GET /api/word-pairs
ListPairs(d, nid, now) == {Served(d, nid, now, s) : s \in Listings(d)}

\* POST /api/word-pairs
CreatePair(d, nid, now, source, target) ==
    IF nid > MaxId THEN {}
    ELSE LET row == NewRow(nid, source, target, now + 1)
         IN {Served(d \cup {row}, nid + 1, now + 1, <<row>>)}

\* DELETE /api/word-pairs/{id}
DeletePair(d, nid, now, id) ==
    {Served({r \in d : r.id # id}, nid, IF HasRow(d, id) THEN now + 1 ELSE now, <<>>)}

\* PATCH /api/word-pairs/{id}/mastered
SetMastered(d, nid, now, id, mastered) ==
    IF ~HasRow(d, id) THEN {}
    ELSE LET old == RowOf(d, id)
             row == Touch([old EXCEPT !.mastered = mastered], now + 1)
         IN {Served((d \ {old}) \cup {row}, nid, now + 1, <<row>>)}

\* PATCH /api/word-pairs/{id}/stats
UpdateStats(d, nid, now, id, correct) ==
    IF ~HasRow(d, id) THEN {}
    ELSE LET old == RowOf(d, id)
             row == Touch([old EXCEPT
                        !.times_practiced = @ + 1,
                        !.times_correct = IF correct THEN @ + 1 ELSE @,
                        !.times_wrong = IF correct THEN @ ELSE @ + 1], now + 1)
         IN {Served((d \ {old}) \cup {row}, nid, now + 1, <<row>>)}

Suggestion(t) == [translation |-> t, confidence |-> 1, context |-> "ctx"]
SuggestionLists == {<<>>, <<Suggestion("house")>>, <<Suggestion("house"), Suggestion("home")>>}

\* POST /api/translation-suggestions
Suggest(d, nid, now) == {Served(d, nid, now, s) : s \in SuggestionLists}

\* POST /api/random-phrase
RandomPhrase(d, nid, now) == {Served(d, nid, now, <<[phrase |-> "mi casa es tu casa"]>>)}

\* the successful outcomes of endpoint op on the table
Endpoint(op, arg, d, nid, now) ==
    CASE op = "getWordPairs" -> ListPairs(d, nid, now)
      [] op = "addWordPair" -> CreatePair(d, nid, now, arg.source, arg.target)
      [] op = "removeWordPair" -> DeletePair(d, nid, now, arg.id)
      [] op = "markWordPairMastered" -> SetMastered(d, nid, now, arg.id, arg.flag)
      [] op = "updateWordPairStats" -> UpdateStats(d, nid, now, arg.id, arg.flag)
      [] op = "getTranslationSuggestions" -> Suggest(d, nid, now)
      [] op = "generateRandomPhrase" -> RandomPhrase(d, nid, now)

\* ------------------------------------------- ai-service request functions
\* throw new Error('User must be authenticated to ...')
AuthMessage(op) ==
    CASE op = "generateRandomPhrase" -> "User must be authenticated to generate phrases"
      [] op = "getTranslationSuggestions" -> "User must be authenticated to get translation suggestions"
      [] op = "getWordPairs" -> "User must be authenticated to get word pairs"
      [] op = "addWordPair" -> "User must be authenticated to add word pairs"
      [] op = "removeWordPair" -> "User must be authenticated to remove word pairs"
      [] op = "markWordPairMastered" -> "User must be authenticated to mark word pairs"
      [] op = "updateWordPairStats" -> "User must be authenticated to update word pair statistics"

\* the text before ${response.statusText}
FailedTo(op) ==
    CASE op = "generateRandomPhrase" -> "Failed to generate phrase: "
      [] op = "getTranslationSuggestions" -> "Failed to get translation suggestions: "
      [] op = "getWordPairs" -> "Failed to get word pairs: "
      [] op = "addWordPair" -> "Failed to add word pair: "
      [] op = "removeWordPair" -> "Failed to remove word pair: "
      [] op = "markWordPairMastered" -> "Failed to update mastered status: "
      [] op = "updateWordPairStats" -> "Failed to update statistics: "

\* The body of a non-success response: text that is not JSON, the JSON null,
\* or a JSON object with or without an error field ("" is the empty string).
Body(parse, hasError, text) == [parse |-> parse, hasError |-> hasError, error |-> text]
ErrorBodies ==
    {Body("unparseable", FALSE, ""), Body("null", FALSE, ""),
     Body("object", FALSE, ""), Body("object", TRUE, "")}
    \cup {Body("object", TRUE, t) : t \in ServerErrorTexts}

\* mutant: .catch(() => ({}))
ErrorData_NoFallbackText(body) ==
    IF body.parse = "unparseable" THEN Body("object", FALSE, "") ELSE body

\* await response.json().catch(() => ({ error: 'Unknown error' }))
ErrorData(body) ==
    IF body.parse = "unparseable" THEN Body("object", TRUE, "Unknown error") ELSE body

\* if (!response.ok) { ...; throw new Error(errorData.error || `Failed to ...`) }
HttpError(op, statusText, body) ==
    LET errorData == ErrorData(body)
    IN IF errorData.parse = "null"
       THEN Err("TypeError", <<"Cannot read properties of null (reading 'error')">>)
       ELSE IF errorData.hasError /\ errorData.error # ""
            THEN Err("Error", <<errorData.error>>)
            ELSE Err("Error", <<FailedTo(op), statusText>>)

\* What the network gives back to fetch(): a rejection, a non-success
\* response, or a success response whose body is the endpoint's JSON, the
\* same JSON without its list field, or text that is not JSON.
Response(kind, statusText, body) == [kind |-> kind, statusText |-> statusText, body |-> body]
NoBody == Body("object", FALSE, "")
NoResponse == Response("none", "", NoBody)
ListOps == {"getWordPairs", "getTranslationSuggestions"}
Responses(op) ==
    {Response("network", "", NoBody), Response("ok", "OK", NoBody),
     Response("malformed", "OK", NoBody)}
    \cup (IF op \in ListOps THEN {Response("noList", "OK", NoBody)} ELSE {})
    \cup {Response("error", st, b) : st \in StatusTexts, b \in ErrorBodies}

\* The responses a call made through the hook is answered with: one of each
\* kind of failure the hook can see, and the successes.
HookResponses(op) ==
    {resp \in Responses(op) :
        resp.kind = "error" =>
            /\ resp.statusText = "Internal Server Error"
            /\ resp.body = Body("object", TRUE, "Word pair not found")}

\* the server acts on the request exactly when it answers with success
Reaches(session, resp) == session /\ resp.kind \in {"ok", "noList", "malformed"}

\* What an awaited request function gives its caller: fetched says whether
\* fetch() was called; ok, has and items are the returned JSON; err is the
\* value thrown.
Outcome(fetched, ok, has, items, err) ==
    [fetched |-> fetched, ok |-> ok, has |-> has, items |-> items, err |-> err]
NoOutcome == Outcome(FALSE, FALSE, FALSE, <<>>, NullError)

\* mutant: fetch() is called before the session is looked at
RequestFn_FetchFirst(op, session, resp, items) ==
    IF ~session
    THEN Outcome(TRUE, FALSE, FALSE, <<>>, Err("Error", <<AuthMessage(op)>>))
    ELSE IF resp.kind = "network"
    THEN Outcome(TRUE, FALSE, FALSE, <<>>, Err("TypeError", <<"Failed to fetch">>))
    ELSE IF resp.kind = "error"
    THEN Outcome(TRUE, FALSE, FALSE, <<>>, HttpError(op, resp.statusText, resp.body))
    ELSE IF resp.kind = "malformed"
    THEN Outcome(TRUE, FALSE, FALSE, <<>>, Err("SyntaxError", <<"Unexpected token in JSON">>))
    ELSE IF resp.kind = "noList"
    THEN Outcome(TRUE, TRUE, FALSE, <<>>, NullError)
    ELSE Outcome(TRUE, TRUE, TRUE, items, NullError)

\* one request function, from getSession() to return or throw
RequestFn(op, session, resp, items) ==
    IF ~session
    THEN Outcome(FALSE, FALSE, FALSE, <<>>, Err("Error", <<AuthMessage(op)>>))
    ELSE IF resp.kind = "network"
    THEN Outcome(TRUE, FALSE, FALSE, <<>>, Err("TypeError", <<"Failed to fetch">>))
    ELSE IF resp.kind = "error"
    THEN Outcome(TRUE, FALSE, FALSE, <<>>, HttpError(op, resp.statusText, resp.body))
    ELSE IF resp.kind = "malformed"
    THEN Outcome(TRUE, FALSE, FALSE, <<>>, Err("SyntaxError", <<"Unexpected token in JSON">>))
    ELSE IF resp.kind = "noList"
    THEN Outcome(TRUE, TRUE, FALSE, <<>>, NullError)
    ELSE Outcome(TRUE, TRUE, TRUE, items, NullError)

\* ------------------------------------------------------- calls in flight
Arg(id, flag, source, target) == [id |-> id, flag |-> flag, source |-> source, target |-> target]
NoArg == Arg(0, FALSE, "", "")

\* via: "hook" for a call made by useWordPairs, "direct" for a request
\* function called on its own.  pc: "pending" until the request function has
\* returned or thrown, then "settled" until the caller's continuation runs.
\* n tells apart the calls in flight together with the same arguments.
\* session and resp are what getSession() and fetch() gave the request function.
Call(n, via, op, arg) ==
    [n |-> n, via |-> via, op |-> op, arg |-> arg, pc |-> "pending",
     session |-> FALSE, resp |-> NoResponse, out |-> NoOutcome]
NoCall == Call(0, "none", "none", NoArg)

Step(kind, req, promise, reason) ==
    [kind |-> kind, req |-> req, promise |-> promise, reason |-> reason]

CanStart == left > 0 /\ Cardinality(reqs) < MaxInFlight

Twins(via, op, arg) == {c \in reqs : c.via = via /\ c.op = op /\ c.arg = arg}
FreeN(via, op, arg) ==
    CHOOSE n \in 1..(MaxInFlight + 1) :
        /\ \A c \in Twins(via, op, arg) : c.n # n
        /\ \A m \in 1..(n - 1) : \E c \in Twins(via, op, arg) : c.n = m

Start(via, op, arg) ==
    LET c == Call(FreeN(via, op, arg), via, op, arg)
    IN /\ CanStart
       /\ reqs' = reqs \cup {c}
       /\ left' = left - 1
       /\ last' = Step("call", c, "pending", NullError)
       /\ UNCHANGED <<wordPairs, db, nextId, clock>>

\* the continuation of call r has run: its promise is settled
Finish(r, promise, reason) ==
    /\ reqs' = reqs \ {r}
    /\ last' = Step("settle", r, promise, reason)
    /\ UNCHANGED <<left, db, nextId, clock>>

Settled(r, op) == r \in reqs /\ r.via = "hook" /\ r.op = op /\ r.pc = "settled"

\* The awaited request function of call r runs: getSession(), then fetch(),
\* the endpoint's work on the table, and the reading of the response.
Request(r) ==
    /\ r \in reqs /\ r.pc = "pending"
    /\ \E session \in BOOLEAN,
          resp \in (IF r.via = "direct" THEN Responses(r.op) ELSE HookResponses(r.op)) :
         \E sv \in (IF Reaches(session, resp)
                    THEN Endpoint(r.op, r.arg, db, nextId, clock)
                    ELSE {Served(db, nextId, clock, <<>>)}) :
            LET got == IF session THEN resp ELSE NoResponse
                done == [r EXCEPT !.pc = "settled", !.session = session, !.resp = got,
                                  !.out = RequestFn(r.op, session, got, sv.items)]
            IN /\ reqs' = (reqs \ {r}) \cup {done}
               /\ db' = sv.db /\ nextId' = sv.nextId /\ clock' = sv.clock
               /\ last' = Step("request", done, "pending", NullError)
    /\ UNCHANGED <<wordPairs, loading, error, left>>

\* ----------------------------------------------------------- useWordPairs
\* response.word_pairs || []
ListOrEmpty(out) == IF out.has THEN out.items ELSE <<>>

\* mutant: [...prev, newWordPair]
Prepend_Appends(newWordPair, prev) == Append(prev, newWordPair)

\* [newWordPair, ...prev]
Prepend(newWordPair, prev) == <<newWordPair>> \o prev

\* prev.filter((wp) => wp.id !== id)
Without(prev, id) == SelectSeq(prev, LAMBDA wp : wp.id # id)

\* mutant: a record the collection does not hold is added
ReplaceMastered_Upserts(prev, id, updated) ==
    IF \E i \in DOMAIN prev : prev[i].id = id
    THEN [i \in DOMAIN prev |-> IF prev[i].id = id THEN updated ELSE prev[i]]
    ELSE <<updated>> \o prev

\* mutant: a response older than the local record is not applied
ReplaceMastered_KeepsNewer(prev, id, updated) ==
    [i \in DOMAIN prev |->
        IF prev[i].id = id /\ prev[i].updated_at <= updated.updated_at
        THEN updated ELSE prev[i]]

\* prev.map((wp) => (wp.id === id ? updated : wp))   (handleToggleMastered)
ReplaceMastered(prev, id, updated) ==
    [i \in DOMAIN prev |-> IF prev[i].id = id THEN updated ELSE prev[i]]

\* mutant: the counters are merged into the local record
ReplaceStats_Merges(prev, id, updated) ==
    [i \in DOMAIN prev |->
        IF prev[i].id = id
        THEN [prev[i] EXCEPT !.times_practiced = updated.times_practiced,
                             !.times_correct = updated.times_correct,
                             !.times_wrong = updated.times_wrong]
        ELSE prev[i]]

\* mutant: every record is replaced by the response
ReplaceStats_ReplacesAll(prev, id, updated) == [i \in DOMAIN prev |-> updated]

\* prev.map((wp) => (wp.id === id ? updated : wp))   (handleUpdateStats)
ReplaceStats(prev, id, updated) ==
    [i \in DOMAIN prev |-> IF prev[i].id = id THEN updated ELSE prev[i]]

fetchWordPairs ==
    /\ Start("hook", "getWordPairs", NoArg)
    /\ loading' = TRUE
    /\ error' = NullError

\* mutant: the catch block empties the collection
fetchWordPairsSettle_ClearsOnFailure(r) ==
    /\ Settled(r, "getWordPairs")
    /\ IF r.out.ok
       THEN /\ wordPairs' = ListOrEmpty(r.out)
            /\ UNCHANGED error
       ELSE /\ error' = ToError(r.out.err)
            /\ wordPairs' = <<>>
    /\ loading' = FALSE
    /\ Finish(r, "resolved", NullError)

\* mutant: the fetched list is added to the collection
fetchWordPairsSettle_Merges(r) ==
    /\ Settled(r, "getWordPairs")
    /\ IF r.out.ok
       THEN /\ wordPairs' = wordPairs \o ListOrEmpty(r.out)
            /\ UNCHANGED error
       ELSE /\ error' = ToError(r.out.err)
            /\ UNCHANGED wordPairs
    /\ loading' = FALSE
    /\ Finish(r, "resolved", NullError)

fetchWordPairsSettle(r) ==
    /\ Settled(r, "getWordPairs")
    /\ IF r.out.ok
       THEN /\ wordPairs' = ListOrEmpty(r.out)
            /\ UNCHANGED error
       ELSE /\ error' = ToError(r.out.err)
            /\ UNCHANGED wordPairs
    /\ loading' = FALSE
    /\ Finish(r, "resolved", NullError)

handleAddWordPair(source, targetWord) ==
    /\ Start("hook", "addWordPair", Arg(0, FALSE, source, targetWord))
    /\ loading' = TRUE
    /\ error' = NullError

handleAddWordPairSettle(r) ==
    /\ Settled(r, "addWordPair")
    /\ IF r.out.ok
       THEN /\ wordPairs' = Prepend(r.out.items[1], wordPairs)
            /\ UNCHANGED error
            /\ Finish(r, "resolved", NullError)
       ELSE /\ error' = ToError(r.out.err)
            /\ UNCHANGED wordPairs
            /\ Finish(r, "rejected", ToError(r.out.err))
    /\ loading' = FALSE

handleDeleteWordPair(id) ==
    /\ Start("hook", "removeWordPair", Arg(id, FALSE, "", ""))
    /\ loading' = TRUE
    /\ error' = NullError

\* mutant: setLoading(false) at the end of the try block, not in finally
handleDeleteWordPairSettle_NoFinally(r) ==
    /\ Settled(r, "removeWordPair")
    /\ IF r.out.ok
       THEN /\ wordPairs' = Without(wordPairs, r.arg.id)
            /\ loading' = FALSE
            /\ UNCHANGED error
            /\ Finish(r, "resolved", NullError)
       ELSE /\ error' = ToError(r.out.err)
            /\ UNCHANGED <<wordPairs, loading>>
            /\ Finish(r, "rejected", ToError(r.out.err))

\* handleDeleteWordPair, from its await on
handleDeleteWordPairSettle(r) ==
    /\ Settled(r, "removeWordPair")
    /\ IF r.out.ok
       THEN /\ wordPairs' = Without(wordPairs, r.arg.id)
            /\ UNCHANGED error
            /\ Finish(r, "resolved", NullError)
       ELSE /\ error' = ToError(r.out.err)
            /\ UNCHANGED wordPairs
            /\ Finish(r, "rejected", ToError(r.out.err))
    /\ loading' = FALSE

handleToggleMastered(id, mastered) ==
    /\ Start("hook", "markWordPairMastered", Arg(id, mastered, "", ""))
    /\ loading' = TRUE
    /\ error' = NullError

handleToggleMasteredSettle(r) ==
    /\ Settled(r, "markWordPairMastered")
    /\ IF r.out.ok
       THEN /\ wordPairs' = ReplaceMastered(wordPairs, r.arg.id, r.out.items[1])
            /\ UNCHANGED error
            /\ Finish(r, "resolved", NullError)
       ELSE /\ error' = ToError(r.out.err)
            /\ UNCHANGED wordPairs
            /\ Finish(r, "rejected", ToError(r.out.err))
    /\ loading' = FALSE

handleUpdateStats(id, correct) ==
    /\ Start("hook", "updateWordPairStats", Arg(id, correct, "", ""))
    /\ error' = NullError
    /\ UNCHANGED loading

handleUpdateStatsSettle(r) ==
    /\ Settled(r, "updateWordPairStats")
    /\ IF r.out.ok
       THEN /\ wordPairs' = ReplaceStats(wordPairs, r.arg.id, r.out.items[1])
            /\ UNCHANGED error
            /\ Finish(r, "resolved", NullError)
       ELSE /\ error' = ToError(r.out.err)
            /\ UNCHANGED wordPairs
            /\ Finish(r, "rejected", ToError(r.out.err))
    /\ UNCHANGED loading

\* the operations that change one record, and the id each response is about
MutationOps == {"addWordPair", "removeWordPair", "markWordPairMastered", "updateWordPairStats"}
TargetId(r) == IF r.op = "addWordPair" THEN r.out.items[1].id ELSE r.arg.id

\* the updater each successful continuation hands to setWordPairs
Effect(prev, r) ==
    CASE r.op = "addWordPair" -> Prepend(r.out.items[1], prev)
      [] r.op = "removeWordPair" -> Without(prev, r.arg.id)
      [] r.op = "markWordPairMastered" -> ReplaceMastered(prev, r.arg.id, r.out.items[1])
      [] r.op = "updateWordPairStats" -> ReplaceStats(prev, r.arg.id, r.out.items[1])

\* ------------------------------------------- useTranslationSuggestions
\* what the user can have typed into the source-word input
Words == {"", " ", "casa", " casa "}

\* mutant: only the empty string counts as empty
Trim_KeepsBlank(word) ==
    CASE word = "" -> ""
      [] word = " " -> " "
      [] word = " casa " -> "casa"
      [] OTHER -> word

\* word.trim()
Trim(word) ==
    CASE word = "" -> ""
      [] word = " " -> ""
      [] word = " casa " -> "casa"
      [] OTHER -> word

SuggestionsCall(word) == Call(0, "suggestions", "getTranslationSuggestions", Arg(0, FALSE, word, ""))

\* getSuggestions, up to its await: the guard on the trimmed word, then
\* setLoading(true); setError(null) and the request with the trimmed word
getSuggestions(word) ==
    IF Trim(word) = ""
    THEN /\ suggestions' = <<>>
         /\ last' = Step("return", SuggestionsCall(word), "resolved", NullError)
         /\ UNCHANGED <<suggestionsLoading, suggestionsError, wordPairs, reqs, left, db, nextId, clock>>
    ELSE /\ Start("suggestions", "getTranslationSuggestions", Arg(0, FALSE, Trim(word), ""))
         /\ suggestionsLoading' = TRUE
         /\ suggestionsError' = NullError
         /\ UNCHANGED suggestions

\* mutant: the response's list is added to the list held
getSuggestionsSettle_Appends(r) ==
    /\ r \in reqs /\ r.via = "suggestions" /\ r.pc = "settled"
    /\ IF r.out.ok
       THEN /\ suggestions' = suggestions \o ListOrEmpty(r.out)
            /\ UNCHANGED suggestionsError
       ELSE /\ suggestionsError' = ToError(r.out.err)
            /\ suggestions' = <<>>
    /\ suggestionsLoading' = FALSE
    /\ Finish(r, "resolved", NullError)
    /\ UNCHANGED wordPairs

\* mutant: the catch block keeps the suggestions it holds
getSuggestionsSettle_KeepsList(r) ==
    /\ r \in reqs /\ r.via = "suggestions" /\ r.pc = "settled"
    /\ IF r.out.ok
       THEN /\ suggestions' = ListOrEmpty(r.out)
            /\ UNCHANGED suggestionsError
       ELSE /\ suggestionsError' = ToError(r.out.err)
            /\ UNCHANGED suggestions
    /\ suggestionsLoading' = FALSE
    /\ Finish(r, "resolved", NullError)
    /\ UNCHANGED wordPairs

\* getSuggestions, from its await on: setSuggestions(response.suggestions || [])
\* or the catch block, then finally; nothing is thrown on
getSuggestionsSettle(r) ==
    /\ r \in reqs /\ r.via = "suggestions" /\ r.pc = "settled"
    /\ IF r.out.ok
       THEN /\ suggestions' = ListOrEmpty(r.out)
            /\ UNCHANGED suggestionsError
       ELSE /\ suggestionsError' = ToError(r.out.err)
            /\ suggestions' = <<>>
    /\ suggestionsLoading' = FALSE
    /\ Finish(r, "resolved", NullError)
    /\ UNCHANGED wordPairs

\* mutant: clearSuggestions leaves the error
clearSuggestions_KeepsError ==
    /\ suggestions' = <<>>
    /\ last' = Step("clear", NoCall, "none", NullError)
    /\ UNCHANGED <<suggestionsError, suggestionsLoading, wordPairs, reqs, left, db, nextId, clock>>

\* setSuggestions([]); setError(null)
clearSuggestions ==
    /\ suggestions' = <<>>
    /\ suggestionsError' = NullError
    /\ last' = Step("clear", NoCall, "none", NullError)
    /\ UNCHANGED <<suggestionsLoading, wordPairs, reqs, left, db, nextId, clock>>

\* ------------------------------------------------ the add form of the page
\* onChange of the source-word input, which is disabled without languages
\* and while adding
setSourceWord(word) ==
    /\ hasLanguages /\ ~adding
    /\ sourceWord' = word
    /\ last' = Step("type", NoCall, "none", NullError)
    /\ UNCHANGED <<selectedTranslation, adding, hasLanguages>>
    /\ UNCHANGED <<storeVars, suggestionVars, tableVars, reqs, left, db, nextId, clock>>
    /\ UNCHANGED <<wordsVars, userVars>>

\* the Get Translations button can be clicked; Enter in the input is handled
GetTranslationsEnabled ==
    Trim(sourceWord) # "" /\ hasLanguages /\ ~suggestionsLoading /\ ~adding
EnterHandled ==
    hasLanguages /\ ~adding /\ Trim(sourceWord) # "" /\ Len(suggestions) = 0

\* handleGetSuggestions of the page, from the button or from Enter: the two
\* guards end in a toast, otherwise getSuggestions(sourceWord.trim())
handleGetSuggestions ==
    /\ GetTranslationsEnabled \/ EnterHandled
    /\ Trim(sourceWord) # "" /\ hasLanguages
    /\ getSuggestions(Trim(sourceWord))
    /\ UNCHANGED <<loading, error, formVars, tableVars, wordsVars, userVars>>

\* onClick of the button of suggestion i
setSelectedTranslation(i) ==
    /\ i \in DOMAIN suggestions
    /\ selectedTranslation' = suggestions[i].translation
    /\ last' = Step("select", NoCall, "none", NullError)
    /\ UNCHANGED <<sourceWord, adding, hasLanguages>>
    /\ UNCHANGED <<storeVars, suggestionVars, tableVars, reqs, left, db, nextId, clock>>
    /\ UNCHANGED <<wordsVars, userVars>>

\* the Add to Dictionary button can be clicked
AddEnabled == selectedTranslation # "null" /\ ~adding /\ hasLanguages

\* handleAddWordPair of the page, up to its await: the guard ends in a toast,
\* otherwise setAdding(true) and addWordPair(sourceWord.trim(), selectedTranslation)
WordPairsPage_handleAddWordPair ==
    /\ AddEnabled
    /\ Trim(sourceWord) # "" /\ selectedTranslation # "null"
    /\ adding' = TRUE
    /\ handleAddWordPair(Trim(sourceWord), selectedTranslation)
    /\ UNCHANGED <<sourceWord, selectedTranslation, hasLanguages, suggestionVars, tableVars, wordsVars, userVars>>

\* mutant: the form is reset whether or not the add succeeded
AfterAdd_AlwaysResets(ok) ==
    /\ sourceWord' = ""
    /\ selectedTranslation' = "null"
    /\ suggestions' = <<>>
    /\ suggestionsError' = NullError
    /\ UNCHANGED suggestionsLoading
    /\ adding' = FALSE

\* handleAddWordPair of the page, from its await on: setSourceWord('');
\* setSelectedTranslation(null); clearSuggestions() when addWordPair
\* resolved, the toast of the catch block when it rejected; then finally
AfterAdd(ok) ==
    /\ IF ok
       THEN /\ sourceWord' = ""
            /\ selectedTranslation' = "null"
            /\ suggestions' = <<>>
            /\ suggestionsError' = NullError
            /\ UNCHANGED suggestionsLoading
       ELSE UNCHANGED <<sourceWord, selectedTranslation, suggestionVars>>
    /\ adding' = FALSE

\* the continuation of the hook's addWordPair and, in the same turn of the
\* microtask queue, that of the page's handler awaiting it
WordPairsPage_handleAddWordPairSettle(r) ==
    /\ handleAddWordPairSettle(r)
    /\ AfterAdd(r.out.ok)
    /\ UNCHANGED <<hasLanguages, tableVars, wordsVars, userVars>>

\* ------------------------------------------------- Number arithmetic
\* A JavaScript Number that is zero or positive: exp and the 53 bits of the
\* significand m, for the value m * 2^(exp - 52) with 2^52 <= m < 2^53.  The
\* significand is kept in four limbs, m = h * 2^52 + a * 2^34 + b * 2^16 + c
\* with h = 1, a and b below 2^18 and c below 2^16; zero has m = 0.
Limb == 262144      \* 2^18
LowLimb == 65536    \* 2^16
Number(exp, h, a, b, c) == [exp |-> exp, h |-> h, a |-> a, b |-> b, c |-> c]
Zero == Number(0, 0, 0, 0, 0)

RECURSIVE Pow2(_)
Pow2(k) == IF k = 0 THEN 1 ELSE 2 * Pow2(k - 1)

\* the limbs of h * 2^52 + a * 2^34 + b * 2^16 + c after the carries
Carried(exp, h, a, b, c) ==
    LET b1 == b + (c \div LowLimb)
        a1 == a + (b1 \div Limb)
    IN Number(exp, h + (a1 \div Limb), a1 % Limb, b1 % Limb, c % LowLimb)

\* round to nearest, ties to even: guard is the first bit cut off, sticky
\* says whether anything non-zero follows it
Rounded(x, guard, sticky) ==
    LET up == guard = 1 /\ (sticky \/ x.c % 2 = 1)
        inc == Carried(x.exp, x.h, x.a, x.b, x.c + 1)
    IN IF ~up THEN x
       ELSE IF inc.h = 2 THEN Number(x.exp + 1, 1, 0, 0, 0)
       ELSE inc

\* the smallest s with n * 2^s >= d, and the largest t with d * 2^t <= n
RECURSIVE ShiftsUp(_, _)
ShiftsUp(n, d) == IF n >= d THEN 0 ELSE 1 + ShiftsUp(2 * n, d)
RECURSIVE ShiftsDown(_, _)
ShiftsDown(n, d) == IF 2 * d > n THEN 0 ELSE 1 + ShiftsDown(n, 2 * d)

\* c / p of two integers, c >= 0 and p > 0, as the Number nearest the
\* quotient: long division in base 2^18 gives 55 bits of it, of which the
\* last two are rounded away
Divide(c, p) ==
    IF c = 0 THEN Zero
    ELSE LET up == ShiftsUp(c, p)
             down == ShiftsDown(c, p)
             n == c * Pow2(up)
             d == p * Pow2(down)
             r0 == n - d
             d1 == (r0 * Limb) \div d
             r1 == (r0 * Limb) % d
             d2 == (r1 * Limb) \div d
             r2 == (r1 * Limb) % d
             d3 == (r2 * Limb) \div d
             r3 == (r2 * Limb) % d
         IN Rounded(Number(down - up, 1, d1, d2, d3 \div 4),
                    (d3 \div 2) % 2, d3 % 2 = 1 \/ r3 # 0)

\* x * 100, as the Number nearest the product: the product of the limbs
\* has 6 or 7 bits more than fit, which are shifted out and rounded away
Times100(x) ==
    IF x.h = 0 THEN Zero
    ELSE LET product == Carried(x.exp, x.h * 100, x.a * 100, x.b * 100, x.c * 100)
             s == IF product.h >= 128 THEN 7 ELSE 6
             cut == Pow2(s)
             shifted == Number(x.exp + s,
                          product.h \div cut,
                          ((product.h % cut) * (Limb \div cut)) + (product.a \div cut),
                          ((product.a % cut) * (Limb \div cut)) + (product.b \div cut),
                          ((product.b % cut) * (LowLimb \div cut)) + (product.c \div cut))
         IN Rounded(shifted, (product.c \div (cut \div 2)) % 2,
                    product.c % (cut \div 2) # 0)

\* Math.round(x) for x below 2^18: the integer nearest x, the larger one at
\* a half
MathRound(x) ==
    IF x.h = 0 \/ x.exp < -1 THEN 0
    ELSE IF x.exp = -1 THEN 1
    ELSE (x.h * Pow2(x.exp)) + (x.a \div Pow2(18 - x.exp))
            + ((x.a \div Pow2(17 - x.exp)) % 2)

\* the sign of x - y
Sign(x, y) ==
    LET key(z) == <<z.h, z.exp, z.a, z.b, z.c>>
        first == {i \in 1..5 : key(x)[i] # key(y)[i]}
        at == CHOOSE i \in first : \A j \in first : i <= j
    IN IF first = {} THEN 0
       ELSE IF x.h = 0 THEN -1
       ELSE IF y.h = 0 THEN 1
       ELSE IF key(x)[at] > key(y)[at] THEN 1 ELSE -1

\* Math.round((correct / practiced) * 100)
Percent(correct, practiced) == MathRound(Times100(Divide(correct, practiced)))

\* ------------------------------------------------------ the derived view
\* wordPairs.reduce((sum, wp) => sum + wp[field], 0)
RECURSIVE Total(_, _)
Total(pairs, field) ==
    IF pairs = <<>> THEN 0 ELSE pairs[1][field] + Total(Tail(pairs), field)

\* mutant: learning counts the pairs never practiced
statistics_LearningUnpracticed ==
    LET totalPracticed == Total(wordPairs, "times_practiced")
        totalCorrect == Total(wordPairs, "times_correct")
    IN [total |-> Len(wordPairs),
        mastered |-> Len(SelectSeq(wordPairs, LAMBDA wp : wp.mastered)),
        learning |-> Len(SelectSeq(wordPairs, LAMBDA wp : wp.times_practiced = 0)),
        totalPracticed |-> totalPracticed,
        totalCorrect |-> totalCorrect,
        totalWrong |-> Total(wordPairs, "times_wrong"),
        accuracy |-> IF totalPracticed > 0 THEN Percent(totalCorrect, totalPracticed) ELSE 0]

\* the statistics object of useWordPairs
statistics ==
    LET totalPracticed == Total(wordPairs, "times_practiced")
        totalCorrect == Total(wordPairs, "times_correct")
    IN [total |-> Len(wordPairs),
        mastered |-> Len(SelectSeq(wordPairs, LAMBDA wp : wp.mastered)),
        learning |-> Len(SelectSeq(wordPairs, LAMBDA wp : ~wp.mastered)),
        totalPracticed |-> totalPracticed,
        totalCorrect |-> totalCorrect,
        totalWrong |-> Total(wordPairs, "times_wrong"),
        accuracy |-> IF totalPracticed > 0 THEN Percent(totalCorrect, totalPracticed) ELSE 0]

FilterTypes == {"all", "mastered", "learning"}
SortTypes == {"date", "accuracy", "practiced"}

RECURSIVE Reversed(_)
Reversed(pairs) == IF pairs = <<>> THEN <<>> ELSE Reversed(Tail(pairs)) \o <<pairs[1]>>

\* mutant: the pairs kept come out last first
Filtered_Reversed(pairs, mode) ==
    Reversed(SelectSeq(pairs, LAMBDA pair :
        IF mode = "mastered" THEN pair.mastered
        ELSE IF mode = "learning" THEN ~pair.mastered
        ELSE TRUE))

\* wordPairs.filter((pair) => ...) under filter mode
Filtered(pairs, mode) ==
    SelectSeq(pairs, LAMBDA pair :
        IF mode = "mastered" THEN pair.mastered
        ELSE IF mode = "learning" THEN ~pair.mastered
        ELSE TRUE)

filteredPairs == Filtered(wordPairs, filter)

\* a.times_practiced > 0 ? a.times_correct / a.times_practiced : 0
AccuracyOf(pair) ==
    IF pair.times_practiced > 0 THEN Divide(pair.times_correct, pair.times_practiced) ELSE Zero

\* the sign of what the comparator of sortedPairs returns for (a, b)
Compare(a, b, mode) ==
    IF mode = "date"
    THEN (IF b.created_at > a.created_at THEN 1 ELSE IF b.created_at < a.created_at THEN -1 ELSE 0)
    ELSE IF mode = "accuracy" THEN Sign(AccuracyOf(b), AccuracyOf(a))
    ELSE IF mode = "practiced"
    THEN (IF b.times_practiced > a.times_practiced THEN 1
          ELSE IF b.times_practiced < a.times_practiced THEN -1 ELSE 0)
    ELSE 0

\* mutant: a pair is put before the pairs it compares equal to
Insert_BeforeEquals(sorted, x, mode) ==
    LET before == {j \in DOMAIN sorted : Compare(sorted[j], x, mode) < 0}
        k == IF before = {} THEN 0 ELSE CHOOSE j \in before : \A i \in before : i <= j
    IN SubSeq(sorted, 1, k) \o <<x>> \o SubSeq(sorted, k + 1, Len(sorted))

\* x is put after the last pair the comparator does not place after it
Insert(sorted, x, mode) ==
    LET before == {j \in DOMAIN sorted : Compare(sorted[j], x, mode) <= 0}
        k == IF before = {} THEN 0 ELSE CHOOSE j \in before : \A i \in before : i <= j
    IN SubSeq(sorted, 1, k) \o <<x>> \o SubSeq(sorted, k + 1, Len(sorted))

\* [...pairs].sort(comparator): Array.prototype.sort is stable
RECURSIVE Sorted(_, _)
Sorted(pairs, mode) ==
    IF pairs = <<>> THEN <<>>
    ELSE Insert(Sorted(SubSeq(pairs, 1, Len(pairs) - 1), mode), pairs[Len(pairs)], mode)

sortedPairs == Sorted(filteredPairs, sortBy)

\* mutant: the percentage is cut off, not rounded
calculateAccuracy_Floors(pair) ==
    IF pair.times_practiced = 0 THEN 0
    ELSE (100 * pair.times_correct) \div pair.times_practiced

\* calculateAccuracy of the page
calculateAccuracy(pair) ==
    IF pair.times_practiced = 0 THEN 0
    ELSE Percent(pair.times_correct, pair.times_practiced)

\* the accuracy line of a row: the percentages it shows, none for a pair
\* that has not been practiced
AccuracyCell(pair) ==
    IF pair.times_practiced > 0 THEN <<calculateAccuracy(pair)>> ELSE <<>>

\* onChange of the two selects above the table
setFilter(mode) ==
    /\ filter' = mode
    /\ last' = Step("view", NoCall, "none", NullError)
    /\ UNCHANGED <<sortBy, storeVars, suggestionVars, formVars, reqs, left, db, nextId, clock>>
    /\ UNCHANGED <<wordsVars, userVars>>

setSortBy(mode) ==
    /\ sortBy' = mode
    /\ last' = Step("view", NoCall, "none", NullError)
    /\ UNCHANGED <<filter, storeVars, suggestionVars, formVars, reqs, left, db, nextId, clock>>
    /\ UNCHANGED <<wordsVars, userVars>>

\* ------------------------------------ request functions called on their own
Args(op) ==
    CASE op \in {"getWordPairs", "generateRandomPhrase"} -> {NoArg}
      [] op = "addWordPair" -> {Arg(0, FALSE, s, t) : s \in SourceWords, t \in TargetWords}
      [] op = "removeWordPair" -> {Arg(id, FALSE, "", "") : id \in Ids}
      [] op \in {"markWordPairMastered", "updateWordPairStats"} ->
            {Arg(id, f, "", "") : id \in Ids, f \in BOOLEAN}
      [] op = "getTranslationSuggestions" -> {Arg(0, FALSE, s, "") : s \in SourceWords}

\* a caller awaits one request function
Invoke(op, arg) ==
    /\ reqs = {}
    /\ Start("direct", op, arg)
    /\ UNCHANGED <<loading, error>>

\* the awaited promise resolves with the JSON or rejects with the error thrown
Return(r) ==
    /\ r \in reqs /\ r.via = "direct" /\ r.pc = "settled"
    /\ Finish(r, IF r.out.ok THEN "resolved" ELSE "rejected", r.out.err)
    /\ UNCHANGED <<wordPairs, loading, error>>

\* --------------------------------------------------------------- useWords
\* (web/src/hooks/use-words.ts)  The hook pages through public.words: a
\* fetchWords call awaits the count query, then the range query of the page
\* it was created for; words holds the ranks of the rows of the page, 1 for
\* the newest row.
ITEMS_PER_PAGE == 20

\* sizes of the words table, and arguments goToPage is called with
WordCounts == {0, 20, 21, 45}
PageNumbers == {-1, 0, 1, 2, 5}

MathMin(a, b) == IF a <= b THEN a ELSE b
MathMax(a, b) == IF a >= b THEN a ELSE b

\* Math.ceil(totalCount / ITEMS_PER_PAGE)
totalPages ==
    IF totalCount % ITEMS_PER_PAGE = 0
    THEN totalCount \div ITEMS_PER_PAGE
    ELSE totalCount \div ITEMS_PER_PAGE + 1

\* a fetchWords call for the page of its render, suspended at the count query
Fetch(n, page) == [n |-> n, page |-> page, pc |-> "count", from |-> 0, to |-> 0]
FreeFetch == CHOOSE n \in 1..(MaxInFlight + 1) : \A f \in fetches : f.n # n

\* what the count query and the range query resolve with, or throw
CountResults(rows) ==
    {[kind |-> "count", count |-> rows], [kind |-> "null", count |-> 0],
     [kind |-> "thrown", count |-> 0]}
Slice(rows, from, to) ==
    [i \in 1..MathMax(0, MathMin(to, rows - 1) - from + 1) |-> from + i]
RangeResults(rows, from, to) ==
    {[kind |-> "error", data |-> <<>>], [kind |-> "thrown", data |-> <<>>]}
    \cup (IF from >= 0 THEN {[kind |-> "data", data |-> Slice(rows, from, to)]} ELSE {})

\* count || 0
CountOrZero(res) == IF res.kind = "count" THEN res.count ELSE 0

\* fetchWords up to its first await: setLoading(true) and the count query
fetchWords(page) ==
    /\ Cardinality(fetches) < MaxInFlight
    /\ wordsLoading' = TRUE
    /\ fetches' = fetches \cup {Fetch(FreeFetch, page)}
    /\ UNCHANGED <<words, totalCount, wordRows>>

\* fetchWords from the count query to the range query: setTotalCount, then
\* from and to of the page the call was created for; a throw ends in finally
fetchWordsCounted(f) ==
    /\ f \in fetches /\ f.pc = "count"
    /\ \E res \in CountResults(wordRows) :
          IF res.kind = "thrown"
          THEN /\ wordsLoading' = FALSE
               /\ fetches' = fetches \ {f}
               /\ UNCHANGED totalCount
          ELSE LET from == (f.page - 1) * ITEMS_PER_PAGE
                   to == from + ITEMS_PER_PAGE - 1
               IN /\ totalCount' = CountOrZero(res)
                  /\ fetches' = (fetches \ {f}) \cup
                                    {[f EXCEPT !.pc = "range", !.from = from, !.to = to]}
                  /\ UNCHANGED wordsLoading
    /\ UNCHANGED <<words, currentPage, wordRows>>

\* fetchWords from the range query on: setWords(data || []) unless the query
\* gave an error or threw, then finally
fetchWordsRanged(f) ==
    /\ f \in fetches /\ f.pc = "range"
    /\ \E res \in RangeResults(wordRows, f.from, f.to) :
          IF res.kind = "data" THEN words' = res.data ELSE UNCHANGED words
    /\ wordsLoading' = FALSE
    /\ fetches' = fetches \ {f}
    /\ UNCHANGED <<currentPage, totalCount, wordRows>>

\* setCurrentPage with a page other than the current one, and the effect on
\* [currentPage] of the render that follows
setCurrentPage(page) ==
    /\ page # currentPage
    /\ currentPage' = page
    /\ fetchWords(page)

goToNextPage == setCurrentPage(MathMin(currentPage + 1, totalPages))
goToPreviousPage == setCurrentPage(MathMax(currentPage - 1, 1))
goToPage(page) == setCurrentPage(MathMax(1, MathMin(page, totalPages)))

refresh ==
    /\ fetchWords(currentPage)
    /\ UNCHANGED currentPage

\* ----------------------------------------------------------- UserProvider
\* (UserContext)  The mount effect looks the session up and subscribes to the
\* auth events; each handler sets the user and awaits fetchProfile.
Users == {"a", "b"}
Null == [id |-> "null"]
User(id) == [id |-> id]
Profile(id) == [id |-> id]
IsNull(x) == x = Null

\* a fetchProfile call suspended at its query; after says whether the caller
\* goes on with setLoading(false)
Lookup(n, userId, after) == [n |-> n, userId |-> userId, after |-> after]
FreeLookup == CHOOSE n \in 1..(MaxInFlight + 1) : \A l \in lookups : l.n # n
ProfileResults == {"data", "PGRST116", "error", "thrown"}

\* fetchProfile up to its await
fetchProfile(userId, after) ==
    /\ Cardinality(lookups) < MaxInFlight
    /\ lookups' = lookups \cup {Lookup(FreeLookup, userId, after)}

\* fetchProfile from its await on: setProfile(data), or setProfile(null) for
\* an error or a throw; then the rest of the handler that awaited it
fetchProfileSettle(l) ==
    /\ l \in lookups
    /\ \E res \in ProfileResults :
          profile' = IF res = "data" THEN Profile(l.userId) ELSE Null
    /\ userLoading' = IF l.after = "setLoading" THEN FALSE ELSE userLoading
    /\ lookups' = lookups \ {l}
    /\ UNCHANGED <<user, userError, sessionLookup>>

\* what getSession() resolves with: an error, no session, or a user's session
SessionResults == {[error |-> TRUE, user |-> Null], [error |-> FALSE, user |-> Null]}
                      \cup {[error |-> FALSE, user |-> User(u)] : u \in Users}

\* supabase.auth.getSession().then(...)
getSessionThen ==
    /\ sessionLookup = "pending"
    /\ sessionLookup' = "done"
    /\ \E res \in SessionResults :
          IF res.error
          THEN /\ userError' = Err("AuthError", <<"session">>)
               /\ userLoading' = FALSE
               /\ UNCHANGED <<user, profile, lookups>>
          ELSE /\ user' = res.user
               /\ IF IsNull(res.user)
                  THEN /\ userLoading' = FALSE
                       /\ UNCHANGED lookups
                  ELSE /\ fetchProfile(res.user.id, "setLoading")
                       /\ UNCHANGED userLoading
               /\ UNCHANGED <<profile, userError>>

\* the onAuthStateChange callback, called with the session's user or null
onAuthStateChange(sessionUser) ==
    /\ user' = sessionUser
    /\ IF IsNull(sessionUser)
       THEN /\ profile' = Null
            /\ userLoading' = FALSE
            /\ UNCHANGED lookups
       ELSE /\ fetchProfile(sessionUser.id, "setLoading")
            /\ UNCHANGED <<profile, userLoading>>
    /\ UNCHANGED <<userError, sessionLookup>>

\* refreshProfile: if (user) await fetchProfile(user.id)
refreshProfile ==
    /\ ~IsNull(user)
    /\ fetchProfile(user.id, "none")
    /\ UNCHANGED <<user, profile, userLoading, userError, sessionLookup>>

\* signOut: supabase.auth.signOut() ends the session, and the subscription is
\* told so
signOut == onAuthStateChange(Null)

\* ------------------------------------------------------- specification
InitTable(k) ==
    /\ db = {NewRow(i, "casa", "house", i) : i \in 1..k}
    /\ nextId = k + 1
    /\ clock = k

\* useTranslationSuggestions as constructed
InitSuggestions ==
    /\ suggestions = <<>>
    /\ suggestionsLoading = FALSE
    /\ suggestionsError = NullError

\* the page as constructed, for a user whose profile names both languages
InitPage ==
    /\ sourceWord = ""
    /\ selectedTranslation = "null"
    /\ adding = FALSE
    /\ hasLanguages = TRUE
    /\ filter = "all"
    /\ sortBy = "date"

\* useWords once mounted before a table of rows rows: the effect has called
\* fetchWords for page 1
InitWords(rows) ==
    /\ words = <<>>
    /\ wordsLoading = TRUE
    /\ currentPage = 1
    /\ totalCount = 0
    /\ fetches = {Fetch(1, 1)}
    /\ wordRows = rows

\* UserProvider once mounted: getSession() is pending
InitUser ==
    /\ user = Null
    /\ profile = Null
    /\ userLoading = TRUE
    /\ userError = NullError
    /\ sessionLookup = "pending"
    /\ lookups = {}

\* the hook as constructed, before a table of at most InitRows rows, with
\* calls operations to come
InitWith(calls) ==
    /\ wordPairs = <<>>
    /\ loading = FALSE
    /\ error = NullError
    /\ reqs = {}
    /\ left = calls
    /\ \E k \in 0..InitRows : InitTable(k)
    /\ last = Step("init", NoCall, "none", NullError)
    /\ InitSuggestions
    /\ InitPage
    /\ InitWords(0)
    /\ InitUser

Init == InitWith(MaxCalls)

\* the ids of the rows the page shows, each with its buttons
Shown == {wordPairs[i].id : i \in DOMAIN wordPairs}

\* what a step of useWordPairs or of a request function leaves alone
Elsewhere == UNCHANGED <<suggestionVars, formVars, tableVars, wordsVars, userVars>>

Next ==
    \/ fetchWordPairs /\ Elsewhere
    \/ \E s \in SourceWords, t \in TargetWords : handleAddWordPair(s, t) /\ Elsewhere
    \/ \E id \in Shown : handleDeleteWordPair(id) /\ Elsewhere
    \/ \E id \in Shown, m \in BOOLEAN : handleToggleMastered(id, m) /\ Elsewhere
    \/ \E id \in Shown, c \in BOOLEAN : handleUpdateStats(id, c) /\ Elsewhere
    \/ \E r \in reqs : Request(r) /\ Elsewhere
    \/ \E r \in reqs : fetchWordPairsSettle(r) /\ Elsewhere
    \/ \E r \in reqs : handleAddWordPairSettle(r) /\ Elsewhere
    \/ \E r \in reqs : handleDeleteWordPairSettle(r) /\ Elsewhere
    \/ \E r \in reqs : handleToggleMasteredSettle(r) /\ Elsewhere
    \/ \E r \in reqs : handleUpdateStatsSettle(r) /\ Elsewhere

Spec == Init /\ [][Next]_vars

\* the same hook, followed for one more operation
DeepInit == InitWith(DeepCalls)
DeepSpec == DeepInit /\ [][Next]_vars

\* the hook once the page has fetched a table of InitRows rows: the collection
\* lists them newest first, and nothing is in flight
LoadedInit ==
    /\ InitTable(InitRows)
    /\ wordPairs = [i \in 1..InitRows |-> RowOf(db, InitRows + 1 - i)]
    /\ loading = FALSE
    /\ error = NullError
    /\ reqs = {}
    /\ left = MaxCalls
    /\ last = Step("init", NoCall, "none", NullError)
    /\ InitSuggestions
    /\ InitPage
    /\ InitWords(0)
    /\ InitUser

LoadedSpec == LoadedInit /\ [][Next]_vars

\* the same hook when every request is answered with success and the body the
\* endpoint sends
RequestSucceeds(r) ==
    /\ Request(r)
    /\ last'.req.session /\ last'.req.resp.kind = "ok" /\ last'.req.out.ok

SyncNext ==
    \/ fetchWordPairs /\ Elsewhere
    \/ \E s \in SourceWords, t \in TargetWords : handleAddWordPair(s, t) /\ Elsewhere
    \/ \E id \in Shown : handleDeleteWordPair(id) /\ Elsewhere
    \/ \E id \in Shown, m \in BOOLEAN : handleToggleMastered(id, m) /\ Elsewhere
    \/ \E id \in Shown, c \in BOOLEAN : handleUpdateStats(id, c) /\ Elsewhere
    \/ \E r \in reqs : RequestSucceeds(r) /\ Elsewhere
    \/ \E r \in reqs : fetchWordPairsSettle(r) /\ Elsewhere
    \/ \E r \in reqs : handleAddWordPairSettle(r) /\ Elsewhere
    \/ \E r \in reqs : handleDeleteWordPairSettle(r) /\ Elsewhere
    \/ \E r \in reqs : handleToggleMasteredSettle(r) /\ Elsewhere
    \/ \E r \in reqs : handleUpdateStatsSettle(r) /\ Elsewhere

SyncSpec == LoadedInit /\ [][SyncNext]_vars

\* the request functions of ai-service, each called on its own
SvcNext ==
    \/ \E op \in Ops : \E arg \in Args(op) : Invoke(op, arg) /\ Elsewhere
    \/ \E r \in reqs : Request(r) /\ Elsewhere
    \/ \E r \in reqs : Return(r) /\ Elsewhere

SvcSpec == Init /\ [][SvcNext]_vars

\* useTranslationSuggestions on its own: getSuggestions and clearSuggestions
\* called in any order while requests are in flight
SuggestionsElsewhere == UNCHANGED <<loading, error, formVars, tableVars, wordsVars, userVars>>

SuggestionsNext ==
    \/ \E word \in Words : getSuggestions(word) /\ SuggestionsElsewhere
    \/ \E r \in reqs : Request(r) /\ Elsewhere
    \/ \E r \in reqs : getSuggestionsSettle(r) /\ SuggestionsElsewhere
    \/ clearSuggestions /\ SuggestionsElsewhere

SuggestionsSpec == Init /\ [][SuggestionsNext]_vars

\* Both hooks side by side.  A request that was issued is answered sooner or
\* later, and the continuation of an answered call is run by the event loop.
HooksNext ==
    \/ fetchWordPairs /\ Elsewhere
    \/ \E s \in SourceWords, t \in TargetWords : handleAddWordPair(s, t) /\ Elsewhere
    \/ \E id \in Shown : handleDeleteWordPair(id) /\ Elsewhere
    \/ \E id \in Shown, m \in BOOLEAN : handleToggleMastered(id, m) /\ Elsewhere
    \/ \E id \in Shown, c \in BOOLEAN : handleUpdateStats(id, c) /\ Elsewhere
    \/ \E word \in Words : getSuggestions(word) /\ SuggestionsElsewhere
    \/ \E r \in reqs : Request(r) /\ Elsewhere
    \/ \E r \in reqs : fetchWordPairsSettle(r) /\ Elsewhere
    \/ \E r \in reqs : handleAddWordPairSettle(r) /\ Elsewhere
    \/ \E r \in reqs : handleDeleteWordPairSettle(r) /\ Elsewhere
    \/ \E r \in reqs : handleToggleMasteredSettle(r) /\ Elsewhere
    \/ \E r \in reqs : handleUpdateStatsSettle(r) /\ Elsewhere
    \/ \E r \in reqs : getSuggestionsSettle(r) /\ SuggestionsElsewhere

EveryRequestResolves == WF_vars(\E r \in reqs : Request(r) /\ Elsewhere)

ContinuationsRun ==
    /\ WF_vars(\E r \in reqs : fetchWordPairsSettle(r) /\ Elsewhere)
    /\ WF_vars(\E r \in reqs : handleAddWordPairSettle(r) /\ Elsewhere)
    /\ WF_vars(\E r \in reqs : handleDeleteWordPairSettle(r) /\ Elsewhere)
    /\ WF_vars(\E r \in reqs : handleToggleMasteredSettle(r) /\ Elsewhere)
    /\ WF_vars(\E r \in reqs : handleUpdateStatsSettle(r) /\ Elsewhere)
    /\ WF_vars(\E r \in reqs : getSuggestionsSettle(r) /\ SuggestionsElsewhere)

LiveSpec == Init /\ [][HooksNext]_vars /\ EveryRequestResolves /\ ContinuationsRun

\* the add form of the page: typing, asking for translations, choosing one
\* and adding the pair, in any order the controls allow
FormInit == DeepInit

FormNext ==
    \/ \E word \in Words : setSourceWord(word)
    \/ handleGetSuggestions
    \/ \E i \in DOMAIN suggestions : setSelectedTranslation(i)
    \/ WordPairsPage_handleAddWordPair
    \/ \E r \in reqs : Request(r) /\ Elsewhere
    \/ \E r \in reqs : getSuggestionsSettle(r) /\ SuggestionsElsewhere
    \/ \E r \in reqs : WordPairsPage_handleAddWordPairSettle(r)

FormSpec == FormInit /\ [][FormNext]_vars

\* useWords on its own, before words tables of several sizes
WordsElsewhere ==
    UNCHANGED <<storeVars, suggestionVars, formVars, tableVars, userVars,
                reqs, left, db, nextId, clock, last>>

WordsInit ==
    /\ wordPairs = <<>> /\ loading = FALSE /\ error = NullError
    /\ reqs = {} /\ left = 0 /\ InitTable(0)
    /\ last = Step("init", NoCall, "none", NullError)
    /\ InitSuggestions
    /\ InitPage
    /\ \E rows \in WordCounts : InitWords(rows)
    /\ InitUser

WordsNext ==
    \/ goToNextPage /\ WordsElsewhere
    \/ goToPreviousPage /\ WordsElsewhere
    \/ \E page \in PageNumbers : goToPage(page) /\ WordsElsewhere
    \/ refresh /\ WordsElsewhere
    \/ \E f \in fetches : fetchWordsCounted(f) /\ WordsElsewhere
    \/ \E f \in fetches : fetchWordsRanged(f) /\ WordsElsewhere

WordsSpec == WordsInit /\ [][WordsNext]_vars

\* UserProvider on its own
UserElsewhere ==
    UNCHANGED <<storeVars, suggestionVars, formVars, tableVars, wordsVars,
                reqs, left, db, nextId, clock, last>>

UserInit ==
    /\ wordPairs = <<>> /\ loading = FALSE /\ error = NullError
    /\ reqs = {} /\ left = 0 /\ InitTable(0)
    /\ last = Step("init", NoCall, "none", NullError)
    /\ InitSuggestions
    /\ InitPage
    /\ InitWords(0)
    /\ InitUser

UserNext ==
    \/ getSessionThen /\ UserElsewhere
    \/ \E u \in Users : onAuthStateChange(User(u)) /\ UserElsewhere
    \/ signOut /\ UserElsewhere
    \/ refreshProfile /\ UserElsewhere
    \/ \E l \in lookups : fetchProfileSettle(l) /\ UserElsewhere

UserSpec == UserInit /\ [][UserNext]_vars

\* The table of the page over a collection that has been fetched: each pair
\* mastered or not, with counters as practice leaves them.
ViewLen == 3
Counters == {<<0, 0, 0>>, <<3, 2, 1>>, <<6, 4, 2>>, <<40, 23, 17>>}

Practiced(row, mastered, counters) ==
    [row EXCEPT !.mastered = mastered,
                !.times_practiced = counters[1],
                !.times_correct = counters[2],
                !.times_wrong = counters[3]]

Collections ==
    UNION {[1..n -> BOOLEAN \X Counters] : n \in 0..ViewLen}

ViewInit ==
    /\ \E rows \in Collections :
          wordPairs = [i \in DOMAIN rows |->
                          Practiced(NewRow(i, "casa", "house", i), rows[i][1], rows[i][2])]
    /\ db = {wordPairs[i] : i \in DOMAIN wordPairs}
    /\ nextId = Len(wordPairs) + 1
    /\ clock = Len(wordPairs)
    /\ loading = FALSE
    /\ error = NullError
    /\ reqs = {}
    /\ left = 0
    /\ last = Step("init", NoCall, "none", NullError)
    /\ InitSuggestions
    /\ InitPage
    /\ InitWords(0)
    /\ InitUser

ViewNext ==
    \/ \E mode \in FilterTypes : setFilter(mode)
    \/ \E mode \in SortTypes : setSortBy(mode)

ViewSpec == ViewInit /\ [][ViewNext]_vars

\* =================================================================
\* Properties
\* =================================================================
\* The step just taken ran the continuation of a hook call on op in ops.
Applied(ops) == last'.kind = "settle" /\ last'.req.via = "hook" /\ last'.req.op \in ops
AppliedOk(ops) == Applied(ops) /\ last'.req.out.ok
AppliedFailed(ops) == Applied(ops) /\ ~last'.req.out.ok

\* the same, of the state reached
Was(ops) == last.kind = "settle" /\ last.req.via = "hook" /\ last.req.op \in ops
WasOk(ops) == Was(ops) /\ last.req.out.ok
WasFailed(ops) == Was(ops) /\ ~last.req.out.ok

HasId(seq, id) == \E i \in DOMAIN seq : seq[i].id = id

\* C1: a failed fetchAll, add, remove, setMastered or recordPractice leaves
\* the local collection as it was: the same records in the same order.
C1_FailureKeepsCollection == [][AppliedFailed(StoreOps) => wordPairs' = wordPairs]_vars

\* a failure of each kind has been applied to a collection that holds records
C1_Witness == WasFailed(StoreOps) /\ Len(wordPairs) > 0 /\ last.req.resp.kind = "error"

\* C2: a successful add puts the server's record at the front; the length
\* grows by one and the records already there keep content and order.
C2_AddPrepends ==
    [][AppliedOk({"addWordPair"}) =>
        /\ Len(wordPairs') = Len(wordPairs) + 1
        /\ wordPairs'[1] = last'.req.out.items[1]
        /\ \A i \in DOMAIN wordPairs : wordPairs'[i + 1] = wordPairs[i]]_vars

C2_Witness == WasOk({"addWordPair"}) /\ Len(wordPairs) >= 2

\* C3: a successful remove(id) shortens the collection by exactly one when
\* the id is in it, leaves it unchanged when it is not, and leaves no record
\* with that id.
C3_RemoveTakesOne ==
    [][AppliedOk({"removeWordPair"}) =>
        /\ ~HasId(wordPairs', last'.req.arg.id)
        /\ IF HasId(wordPairs, last'.req.arg.id)
           THEN Len(wordPairs') = Len(wordPairs) - 1
           ELSE wordPairs' = wordPairs]_vars

\* C4: after a successful setMastered or recordPractice every local record
\* with that id is the record the server returned, and the records with
\* another id are unchanged.
C4_ReplacedByResponse ==
    [][AppliedOk({"markWordPairMastered", "updateWordPairStats"}) =>
        /\ Len(wordPairs') = Len(wordPairs)
        /\ \A i \in DOMAIN wordPairs :
              IF wordPairs[i].id = last'.req.arg.id
              THEN wordPairs'[i] = last'.req.out.items[1]
              ELSE wordPairs'[i] = wordPairs[i]]_vars

\* a practice result was applied to a record held next to another record
C4_Witness ==
    /\ WasOk({"updateWordPairStats"})
    /\ HasId(wordPairs, last.req.arg.id)
    /\ \E i \in DOMAIN wordPairs : wordPairs[i].id # last.req.arg.id

\* C5: a successful fetchAll makes the collection the list of the response,
\* and the empty list when the response has none.
C5_FetchReplaces ==
    [][AppliedOk({"getWordPairs"}) =>
        wordPairs' = IF last'.req.resp.kind = "noList" THEN <<>> ELSE last'.req.out.items]_vars

\* a response without a list was applied while the table holds rows
C5_Witness ==
    /\ WasOk({"getWordPairs"})
    /\ last.req.resp.kind = "noList"
    /\ wordPairs = <<>>
    /\ db # {}
    /\ left = 0

\* C6: no two records of the local collection have the same id.
C6_NoDuplicateIds ==
    \A i, j \in DOMAIN wordPairs : wordPairs[i].id = wordPairs[j].id => i = j

\* C7: when a setMastered or recordPractice response is applied, no counter
\* of a record in the collection goes down.
C7_CountersNeverDecrease ==
    [][Applied({"markWordPairMastered", "updateWordPairStats"}) =>
        \A i \in DOMAIN wordPairs, j \in DOMAIN wordPairs' :
            wordPairs[i].id = wordPairs'[j].id =>
                /\ wordPairs'[j].times_practiced >= wordPairs[i].times_practiced
                /\ wordPairs'[j].times_correct >= wordPairs[i].times_correct
                /\ wordPairs'[j].times_wrong >= wordPairs[i].times_wrong]_vars

\* C8: without a session each of the seven request functions throws its
\* 'must be authenticated' error and has not called fetch().
C8_NoSessionNoRequest ==
    \A r \in reqs :
        (r.pc = "settled" /\ ~r.session) =>
            /\ ~r.out.fetched
            /\ ~r.out.ok
            /\ r.out.err = Err("Error", <<AuthMessage(r.op)>>)

C8_Witness ==
    \E r \in reqs : r.pc = "settled" /\ ~r.session /\ r.op = "generateRandomPhrase"

\* C9 as stated: the message of a non-success response is the body's error
\* field when the field is present and the generic string otherwise.
C9_FieldElseGeneric ==
    \A r \in reqs :
        (r.pc = "settled" /\ r.resp.kind = "error") =>
            r.out.err.message =
                IF r.resp.body.parse = "object" /\ r.resp.body.hasError
                THEN <<r.resp.body.error>>
                ELSE <<FailedTo(r.op), r.resp.statusText>>

\* C9 as amended: the message is the body's error field when the body is a
\* JSON object with a non-empty error field, 'Unknown error' when the body is
\* not JSON, and the generic string when the body is a JSON object with no
\* error field or an empty one; a body that is the JSON null gives a TypeError.
C9_MessageOfFailure ==
    \A r \in reqs :
        (r.pc = "settled" /\ r.resp.kind = "error") =>
            LET b == r.resp.body
            IN /\ ~r.out.ok
               /\ r.out.err.name = IF b.parse = "null" THEN "TypeError" ELSE "Error"
               /\ (b.parse = "object" /\ b.hasError /\ b.error # "")
                     => r.out.err.message = <<b.error>>
               /\ b.parse = "unparseable" => r.out.err.message = <<"Unknown error">>
               /\ (b.parse = "object" /\ (~b.hasError \/ b.error = ""))
                     => r.out.err.message = <<FailedTo(r.op), r.resp.statusText>>

C9_Witness ==
    \E r \in reqs :
        /\ r.pc = "settled" /\ r.resp.kind = "error"
        /\ r.resp.body.parse = "unparseable"
        /\ r.op = "addWordPair"

\* C10 as stated: a failed operation rejects its promise with the error and
\* holds the same error in the error field.
C10_FailureRejects ==
    WasFailed(StoreOps) =>
        /\ error = last.req.out.err
        /\ last.promise = "rejected"
        /\ last.reason = last.req.out.err

\* C10 as amended: a failed add, remove, setMastered or recordPractice rejects
\* its promise with the error and holds the same error in the error field; a
\* failed fetchAll holds the error in the error field and its promise resolves.
C10_FailureSignalled ==
    WasFailed(StoreOps) =>
        /\ error = last.req.out.err
        /\ IF last.req.op = "getWordPairs"
           THEN last.promise = "resolved"
           ELSE last.promise = "rejected" /\ last.reason = last.req.out.err

C10_Witness == WasFailed({"getWordPairs"}) /\ last.req.out.fetched


\* ------------------------------------------------ translation suggestions
\* The step just taken was a getSuggestions call, a clearSuggestions call, or
\* the continuation of a getSuggestions call.
SuggestionsCalled == last'.kind \in {"call", "return"} /\ last'.req.via = "suggestions"
SuggestionsCleared == last'.kind = "clear"
SuggestionsApplied == last'.kind = "settle" /\ last'.req.via = "suggestions"
Blank == {"", " "}

\* C11: getSuggestions with a word that is empty once trimmed issues no
\* request and leaves the list empty, the loading flag and the held error
\* as they were.
C11_BlankWordShortCircuits ==
    [][SuggestionsCalled /\ last'.req.arg.source \in Blank =>
        /\ reqs' = reqs
        /\ UNCHANGED <<db, nextId, clock>>
        /\ suggestions' = <<>>
        /\ UNCHANGED <<suggestionsLoading, suggestionsError>>]_vars

\* a blank word was submitted while an error was held and a request in flight
C11_Witness ==
    /\ last.kind = "return" /\ last.req.arg.source = " "
    /\ IsError(suggestionsError) /\ reqs # {} /\ suggestions = <<>>

\* C12: a failed getSuggestions leaves the list empty and the failure in the
\* error field, whatever an earlier request had put in the list.
C12_FailureEmptiesList ==
    [][SuggestionsApplied /\ ~last'.req.out.ok =>
        /\ suggestions' = <<>>
        /\ IsError(suggestionsError')
        /\ suggestionsError' = last'.req.out.err]_vars

\* the second of two requests failed after the first had been applied
C12_Witness ==
    /\ last.kind = "settle" /\ last.req.via = "suggestions" /\ ~last.req.out.ok
    /\ left = 0 /\ reqs = {}
    /\ suggestions = <<>> /\ IsError(suggestionsError)

\* C13: clearSuggestions empties the list and clears the error without a
\* request, and the list then stays empty until getSuggestions is called.
C13_ClearedStaysEmpty ==
    [][/\ SuggestionsCleared =>
            /\ suggestions' = <<>> /\ suggestionsError' = NullError
            /\ reqs' = reqs /\ UNCHANGED <<db, nextId, clock>>
       /\ last.kind = "clear" /\ ~SuggestionsCalled => suggestions' = <<>>]_vars

\* The states of the fetcher.
Idle == suggestions = <<>> /\ suggestionsError = NullError /\ ~suggestionsLoading
Loading == suggestionsLoading /\ suggestionsError = NullError
Populated == suggestions # <<>> /\ suggestionsError = NullError /\ ~suggestionsLoading
Empty == suggestions = <<>> /\ suggestionsError = NullError /\ ~suggestionsLoading
Errored == suggestions = <<>> /\ IsError(suggestionsError) /\ ~suggestionsLoading

\* C14: a getSuggestions call with a non-empty word moves the fetcher to
\* Loading, each response moves it from Loading to Populated, Empty or
\* Errored, and clearSuggestions moves it to Idle.
C14_StateMachine ==
    [][/\ last'.kind = "call" /\ last'.req.via = "suggestions" => Loading'
       /\ SuggestionsApplied => Loading /\ (Populated' \/ Empty' \/ Errored')
       /\ SuggestionsCleared => Idle']_vars


\* ---------------------------------------------------------- the add form
\* The step just taken ran the continuation of the page's add.
AddApplied == last'.kind = "settle" /\ last'.req.via = "hook" /\ last'.req.op = "addWordPair"

\* C15 (first half): a successful add clears the suggestion list, the
\* selected translation and the source-word input; a failed add leaves all
\* three as they were.
C15_AddResetsForm ==
    [][/\ AddApplied /\ last'.req.out.ok =>
            suggestions' = <<>> /\ selectedTranslation' = "null" /\ sourceWord' = ""
       /\ AddApplied /\ ~last'.req.out.ok =>
            UNCHANGED <<suggestions, selectedTranslation, sourceWord>>]_vars

\* C15: a successful add clears the list, the selected translation and the
\* input, a failed add leaves them, and after a successful add the list
\* stays empty until the user asks for suggestions again.
C15_AddedStaysEmpty ==
    [][/\ AddApplied /\ last'.req.out.ok =>
            suggestions' = <<>> /\ selectedTranslation' = "null" /\ sourceWord' = ""
       /\ AddApplied /\ ~last'.req.out.ok =>
            UNCHANGED <<suggestions, selectedTranslation, sourceWord>>
       /\ WasOk({"addWordPair"}) /\ ~SuggestionsCalled => suggestions' = <<>>]_vars


\* ------------------------------------------------------ the derived view
Rows == DOMAIN wordPairs
Count(P(_)) == Cardinality({i \in Rows : P(wordPairs[i])})

\* C16: statistics.total = statistics.mastered + statistics.learning for
\* every collection.
C16_TotalIsMasteredPlusLearning ==
    statistics.total = statistics.mastered + statistics.learning

\* a collection of both kinds, some of the learning ones practiced
C16_Witness ==
    /\ filter = "learning"
    /\ statistics.total = ViewLen
    /\ statistics.mastered = 1
    /\ \E i \in Rows : ~wordPairs[i].mastered /\ wordPairs[i].times_practiced > 0
    /\ \E i \in Rows : ~wordPairs[i].mastered /\ wordPairs[i].times_practiced = 0

\* the sum of a counter over the collection, last pair first
RECURSIVE SumTo(_, _)
SumTo(n, field) == IF n = 0 THEN 0 ELSE wordPairs[n][field] + SumTo(n - 1, field)

\* n is an integer nearest num / den; n is num / den rounded, a half upwards
Nearest(n, num, den) == 2 * (IF num >= n * den THEN num - (n * den) ELSE (n * den) - num) <= den
HalfUp(num, den) == ((2 * num) + den) \div (2 * den)

\* C17: totalPracticed, totalCorrect and totalWrong are the sums of the
\* counters over all pairs, and accuracy is 0 when totalPracticed = 0 and
\* otherwise 100 * totalCorrect / totalPracticed rounded to the nearest
\* integer, a half upwards.
C17_TotalsAndAccuracy ==
    /\ statistics.totalPracticed = SumTo(Len(wordPairs), "times_practiced")
    /\ statistics.totalCorrect = SumTo(Len(wordPairs), "times_correct")
    /\ statistics.totalWrong = SumTo(Len(wordPairs), "times_wrong")
    /\ statistics.accuracy =
          IF statistics.totalPracticed = 0 THEN 0
          ELSE HalfUp(100 * statistics.totalCorrect, statistics.totalPracticed)

\* C17 without the rule for a half: the totals are the sums and accuracy is
\* 0 or an integer nearest the percentage.
C17_TotalsAndNearest ==
    /\ statistics.totalPracticed = SumTo(Len(wordPairs), "times_practiced")
    /\ statistics.totalCorrect = SumTo(Len(wordPairs), "times_correct")
    /\ statistics.totalWrong = SumTo(Len(wordPairs), "times_wrong")
    /\ IF statistics.totalPracticed = 0 THEN statistics.accuracy = 0
       ELSE Nearest(statistics.accuracy, 100 * statistics.totalCorrect, statistics.totalPracticed)

Ratio(pair) ==
    IF pair.times_practiced = 0 THEN <<0, 1>> ELSE <<pair.times_correct, pair.times_practiced>>
RatioLess(p, q) == Ratio(p)[1] * Ratio(q)[2] < Ratio(q)[1] * Ratio(p)[2]
RatioEqual(p, q) == Ratio(p)[1] * Ratio(q)[2] = Ratio(q)[1] * Ratio(p)[2]
PlaceIn(pairs, pair) == CHOOSE i \in DOMAIN pairs : pairs[i] = pair

\* C19: sorted by accuracy, the rows are the filtered pairs, a pair not
\* practiced comes after every pair of accuracy above 0, accuracy never
\* rises down the table, and pairs of equal accuracy keep the order they
\* have in the filtered collection.
C19_SortedByAccuracy ==
    sortBy = "accuracy" =>
        /\ Len(sortedPairs) = Len(filteredPairs)
        /\ \A i \in DOMAIN filteredPairs : \E j \in DOMAIN sortedPairs :
                sortedPairs[j] = filteredPairs[i]
        /\ \A i, j \in DOMAIN sortedPairs :
                sortedPairs[i].times_practiced = 0 /\ Ratio(sortedPairs[j])[1] > 0 => j < i
        /\ \A i, j \in DOMAIN sortedPairs :
                i < j => ~RatioLess(sortedPairs[i], sortedPairs[j])
        /\ \A i, j \in DOMAIN sortedPairs :
                i < j /\ RatioEqual(sortedPairs[i], sortedPairs[j]) =>
                    PlaceIn(filteredPairs, sortedPairs[i]) < PlaceIn(filteredPairs, sortedPairs[j])

\* a pair not practiced stood first and 4/6 stood before 2/3
C19_Witness ==
    /\ sortBy = "accuracy" /\ Len(filteredPairs) = ViewLen
    /\ filteredPairs[1].times_practiced = 0
    /\ sortedPairs[ViewLen].times_practiced = 0
    /\ sortedPairs[1].times_practiced = 6 /\ sortedPairs[2].times_practiced = 3

\* C20: filtering a list already filtered by the same mode changes nothing,
\* for each of the three modes.
C20_FilterIdempotent ==
    \A mode \in FilterTypes :
        Filtered(Filtered(wordPairs, mode), mode) = Filtered(wordPairs, mode)

\* the filter in use keeps two pairs and drops one
C20_Witness ==
    /\ filter # "all" /\ Len(wordPairs) = ViewLen
    /\ Len(filteredPairs) = 2
    /\ filteredPairs[1] # filteredPairs[2]


\* ------------------------------------------------- concurrent mutations
\* the responses waiting to be applied that succeeded in changing a record
Ready == {r \in reqs : r.via = "hook" /\ r.pc = "settled" /\ r.op \in MutationOps /\ r.out.ok}

Times(seq, rec) == Cardinality({i \in DOMAIN seq : seq[i] = rec})
SameRecords(s, t) ==
    /\ Len(s) = Len(t)
    /\ \A i \in DOMAIN s : Times(s, s[i]) = Times(t, s[i])
OfId(seq, id) == SelectSeq(seq, LAMBDA wp : wp.id = id)

\* every successful continuation of a mutation applies Effect
EffectIsApplied ==
    [][AppliedOk(MutationOps) => wordPairs' = Effect(wordPairs, last'.req)]_vars

\* C21: two successful mutations of different ids, both waiting to be
\* applied, leave the same records whichever is applied first, and each
\* leaves of its own id what it would leave alone.
C21_DifferentIdsCommute ==
    \A r1, r2 \in Ready :
        r1 # r2 /\ TargetId(r1) # TargetId(r2) =>
            /\ SameRecords(Effect(Effect(wordPairs, r1), r2), Effect(Effect(wordPairs, r2), r1))
            /\ OfId(Effect(Effect(wordPairs, r2), r1), TargetId(r1))
                    = OfId(Effect(wordPairs, r1), TargetId(r1))
            /\ OfId(Effect(Effect(wordPairs, r1), r2), TargetId(r1))
                    = OfId(Effect(wordPairs, r1), TargetId(r1))

\* a practice response and a toggle response of different rows wait together
C21_Witness ==
    \E r1, r2 \in Ready :
        /\ r1.op = "updateWordPairStats" /\ r2.op = "markWordPairMastered"
        /\ TargetId(r1) # TargetId(r2)
        /\ HasId(wordPairs, TargetId(r1)) /\ HasId(wordPairs, TargetId(r2))
        /\ Effect(Effect(wordPairs, r1), r2) # Effect(wordPairs, r1)
        /\ Effect(Effect(wordPairs, r1), r2) # Effect(wordPairs, r2)


UpdateOps == {"markWordPairMastered", "updateWordPairStats"}

\* C22: of two setMastered or recordPractice responses for one id, the one
\* applied last decides the local record of that id: once a response has
\* been applied the record is its payload, also when the server handled
\* that request first and the table holds something newer.
C22_LastResponseWins ==
    WasOk(UpdateOps) =>
        \A i \in DOMAIN wordPairs :
            wordPairs[i].id = last.req.arg.id => wordPairs[i] = last.req.out.items[1]

\* both responses for one id have been applied, and the one applied last
\* was handled by the server first
C22_Witness ==
    /\ WasOk(UpdateOps) /\ left = 0 /\ reqs = {}
    /\ \E i \in DOMAIN wordPairs :
          /\ wordPairs[i].id = last.req.arg.id
          /\ wordPairs[i] = last.req.out.items[1]
          /\ HasRow(db, last.req.arg.id)
          /\ RowOf(db, last.req.arg.id).updated_at > wordPairs[i].updated_at

\* what a getSuggestions call leaves in the list once it has resolved: the
\* response's list, nothing when the response has no list, nothing on failure
ListOf(r) ==
    CASE ~r.out.ok -> <<>>
      [] r.out.ok /\ ~r.out.has -> <<>>
      [] OTHER -> r.out.items

\* C23: a getSuggestions call cancels no request in flight, and the list
\* after a getSuggestions request has resolved is that request's outcome (its
\* list, or nothing when the response has no list or the request failed),
\* whatever an overlapping request that resolved before it had left, and also
\* when it was the first of the two to be issued; the list is never a mix of
\* two responses.
C23_LastResolvedWins ==
    [][/\ SuggestionsCalled => reqs \subseteq reqs'
       /\ SuggestionsApplied =>
            /\ suggestions' = ListOf(last'.req)
            /\ reqs' = reqs \ {last'.req}]_vars

\* two calls overlapped, the second to be issued failed first, and the first
\* resolved last with a list: the list is the first call's, the error is still
\* the second's
C23_Witness ==
    /\ last.kind = "settle" /\ last.req.via = "suggestions" /\ last.req.n = 1
    /\ last.req.out.ok /\ last.req.out.has
    /\ left = 0 /\ reqs = {}
    /\ IsError(suggestionsError)
    /\ suggestions = last.req.out.items /\ Len(suggestions) = 2

\* the collection lists every row of the table once, with the table's values
Synchronized ==
    /\ Len(wordPairs) = Cardinality(db)
    /\ \A row \in db : \E i \in DOMAIN wordPairs : wordPairs[i] = row

\* C24: after a successful first fetch, with this client the only writer and
\* every request answered with success, the collection holds exactly the
\* table's rows whenever no request is outstanding, whatever the order in
\* which the requests were handled and their responses applied.
C24_SynchronizedWhenIdle == reqs = {} => Synchronized

\* the operations that raise the store's loading indicator
LoadingOps == {"getWordPairs", "addWordPair", "removeWordPair", "markWordPairMastered"}

\* a request of these operations has been issued and has not been answered
Unresolved(via, ops) == \E r \in reqs : r.via = via /\ r.op \in ops /\ r.pc = "pending"

\* C25: while a request of fetchAll, add, remove or setMastered has not
\* resolved the store's loading indicator is true, and while a getSuggestions
\* request has not resolved the fetcher's is, whatever other operations start
\* and finish in the meantime.
C25_LoadingWhileUnresolved ==
    /\ Unresolved("hook", LoadingOps) => loading
    /\ Unresolved("suggestions", {"getTranslationSuggestions"}) => suggestionsLoading

\* a request of these operations is in flight: issued, its continuation not run
Outstanding(via, ops) == \E r \in reqs : r.via = via /\ r.op \in ops

\* C26: when every issued request resolves, each loading indicator that is
\* true becomes false; an indicator is false whenever no request of its
\* operations (fetchAll, add, remove, setMastered; getSuggestions) is
\* outstanding; and no step of recordPractice changes the store's indicator.
C26_LoadingEnds ==
    /\ loading ~> ~loading
    /\ suggestionsLoading ~> ~suggestionsLoading
    /\ [](~Outstanding("hook", LoadingOps) => ~loading)
    /\ [](~Outstanding("suggestions", {"getTranslationSuggestions"}) => ~suggestionsLoading)
    /\ [][last'.req.via = "hook" /\ last'.req.op = "updateWordPairStats" =>
            loading' = loading]_vars

\* every call has been made and has resolved, the last of them a failed call
\* of an operation that raises the indicator, and both indicators are false
C26_Witness ==
    /\ left = 0 /\ reqs = {}
    /\ last.kind = "settle" /\ last.req.op \in LoadingOps /\ ~last.req.out.ok
    /\ ~loading /\ ~suggestionsLoading

\* the ids the collection holds
IdsOf(seq) == {seq[i].id : i \in DOMAIN seq}

\* C27: a successful remove leaves no record of its id, and no step other
\* than the application of a fetchAll or add response gives the collection an
\* id it did not hold: a setMastered or recordPractice response that resolves
\* after the removal of its id does not put the record back.
C27_RemovedStaysRemoved ==
    [][/\ AppliedOk({"removeWordPair"}) => last'.req.arg.id \notin IdsOf(wordPairs')
       /\ ~AppliedOk({"getWordPairs", "addWordPair"}) => IdsOf(wordPairs') \subseteq IdsOf(wordPairs)]_vars

\* a setMastered or recordPractice request was handled by the server before
\* the remove of the same id, its response was applied after the removal, and
\* the collection does not hold the id
C27_Witness ==
    /\ WasOk(UpdateOps) /\ left = 0 /\ reqs = {}
    /\ last.req.out.items[1].id = last.req.arg.id
    /\ ~HasRow(db, last.req.arg.id)
    /\ last.req.arg.id \notin IdsOf(wordPairs)

\* the step just taken issued an add request
AddCalled == last'.kind = "call" /\ last'.req.via = "hook" /\ last'.req.op = "addWordPair"

\* C28: every add request issued from the page carries the trimmed source
\* word, which is not empty, and a target word that is the translation of one
\* of the suggestions shown when the request is issued.
C28_AddCarriesShownTranslation ==
    [][AddCalled =>
        /\ last'.req.arg.source = Trim(sourceWord) /\ last'.req.arg.source # ""
        /\ \E i \in DOMAIN suggestions :
              suggestions[i].translation = last'.req.arg.target]_vars

\* C29: whatever goToNextPage, goToPreviousPage, goToPage and refresh calls
\* and fetch completions have happened, currentPage is at least 1 and, when
\* totalPages is at least 1, at most totalPages, and no range query starts at
\* a negative offset.
C29_PageInRange ==
    /\ currentPage >= 1
    /\ totalPages >= 1 => currentPage <= totalPages
    /\ \A f \in fetches : f.pc = "range" => f.from >= 0

\* C30: a profile that is set belongs to the user that is set: with no user
\* there is no profile, and a profile's id is the user's id.
C30_ProfileOfUser ==
    /\ IsNull(user) => IsNull(profile)
    /\ ~IsNull(user) /\ ~IsNull(profile) => profile.id = user.id

====
